---------------------------- MODULE Spec2Model ----------------------------
(***************************************************************************)
(* Layout engine of the pdf_generator repository: text measurement, greedy *)
(* word wrap, font auto-fit, table column sizing and the dynamic           *)
(* full-width-then-two-column page template.                               *)
(*                                                                         *)
(* Lengths are fixed-point numbers: PtUnits units make one point, so the   *)
(* 0.01 pt tolerance of _autosize_col_widths is two units and lengths that *)
(* differ by less than the tolerance exist in the model.  Font sizes are   *)
(* counted in half points, so that sizeMax - sizeMin need not be a whole   *)
(* number of points.  Glyph widths are in 1/100 em, so that                *)
(*   glyph (1/100 em) * size (1/2 pt)  =  width in 1/200 pt = units.       *)
(*                                                                         *)
(* A text is a sequence of one-character strings.                          *)
(***************************************************************************)
EXTENDS Integers, Sequences, FiniteSets, TLC

VARIABLES op, args, ret, pc

vars == <<op, args, ret, pc>>

(***************************************************************************)
(* Units and bounds                                                        *)
(***************************************************************************)
PtUnits == 200

SizeUnits == 2

MaxTextLen == 6

MaxWrapWidth == 5

MaxFontSize == 3

MaxFitSize == 6

MaxFitTextLen == 3

MaxCols == 2

MaxRows == 1

MaxHeightSteps == 2

MaxItems == 2

MaxParas == 3

MaxRefs == 2

Pt(n) == n * PtUnits

Chars == {"a", "W", " "}

\* the body and header fonts of the paper's tables
Fonts == {"Times-Roman", "Times-Bold"}

RECURSIVE TextsOfLen(_)
TextsOfLen(n) ==
    IF n = 0 THEN {<<>>}
    ELSE {Append(t, c) : t \in TextsOfLen(n - 1), c \in Chars}

Texts == UNION {TextsOfLen(n) : n \in 0..MaxTextLen}

\* font sizes offered to the wrapper and the sizer, in half points
FontSizes == 1..MaxFontSize

\* sizes and texts offered to the sizer
FitSizes == 1..MaxFitSize

FitTexts == {t \in Texts : Len(t) <= MaxFitTextLen}

\* line widths offered to the wrapper and the sizer, in units
WrapWidths == {50 * k : k \in 1..MaxWrapWidth}

(***************************************************************************)
(* TextMetrics: pdfmetrics.stringWidth is the sum of the glyph widths of   *)
(* the font times the size; the glyph widths are those of the standard     *)
(* Times faces (space 250, a 444/500, W 944/1000 per 1000 em), in 1/100 em.*)
(***************************************************************************)
CharWidth(font, c) ==
    IF font = "Times-Bold"
    THEN CASE c = " " -> 25 [] c = "a" -> 50 [] c = "W" -> 100
    ELSE CASE c = " " -> 25 [] c = "a" -> 44 [] c = "W" -> 94

RECURSIVE GlyphSum(_, _)
GlyphSum(text, font) ==
    IF text = <<>> THEN 0
    ELSE CharWidth(font, Head(text)) + GlyphSum(Tail(text), font)

\* string_width(text, font_name, font_size): size in half points, result in units
string_width(text, font, size) == GlyphSum(text, font) * size

(***************************************************************************)
(* str.split() with no argument: words are the maximal runs of             *)
(* non-whitespace characters; leading and trailing whitespace gives no     *)
(* empty word.                                                             *)
(***************************************************************************)
IsSpace(c) == c = " "

RECURSIVE split_at(_, _, _, _)
split_at(text, i, cur, words) ==
    IF i > Len(text)
    THEN IF cur = <<>> THEN words ELSE Append(words, cur)
    ELSE IF IsSpace(text[i])
         THEN split_at(text, i + 1, <<>>,
                       IF cur = <<>> THEN words ELSE Append(words, cur))
         ELSE split_at(text, i + 1, Append(cur, text[i]), words)

split(text) == split_at(text, 1, <<>>, <<>>)

\* f"{line} {w}"
JoinSpace(line, w) == line \o <<" ">> \o w

(***************************************************************************)
(* Wrapper: wrap_text_to_width (coversheet.py, widgets.py) and the         *)
(* create_table.py variant, which returns one empty line for an empty text.*)
(***************************************************************************)
WrapFitsNoSpace(line, w, font, size, max_width) ==
    string_width(line \o w, font, size) <= max_width

\* string_width(f"{line} {w}", font_name, font_size) <= max_width
wrap_fits(line, w, font, size, max_width) ==
    string_width(JoinSpace(line, w), font, size) <= max_width

RECURSIVE WrapLoopDropsWord(_, _, _, _, _, _, _)
WrapLoopDropsWord(words, i, line, lines, font, size, max_width) ==
    IF i > Len(words) THEN Append(lines, line)
    ELSE IF string_width(JoinSpace(line, words[i]), font, size) <= max_width
         THEN WrapLoopDropsWord(words, i + 1, JoinSpace(line, words[i]),
                                lines, font, size, max_width)
         ELSE WrapLoopDropsWord(words, i + 1, line, Append(lines, line),
                                font, size, max_width)

\* every word closes the line: one word per line
RECURSIVE WrapLoopOneWordPerLine(_, _, _, _, _, _, _)
WrapLoopOneWordPerLine(words, i, line, lines, font, size, max_width) ==
    IF i > Len(words) THEN Append(lines, line)
    ELSE WrapLoopOneWordPerLine(words, i + 1, words[i], Append(lines, line),
                                font, size, max_width)

\* the for loop over words[1:]: i is the index of the next word
RECURSIVE wrap_loop(_, _, _, _, _, _, _)
wrap_loop(words, i, line, lines, font, size, max_width) ==
    IF i > Len(words) THEN Append(lines, line)
    ELSE IF wrap_fits(line, words[i], font, size, max_width)
         THEN wrap_loop(words, i + 1, JoinSpace(line, words[i]), lines,
                        font, size, max_width)
         ELSE wrap_loop(words, i + 1, words[i], Append(lines, line),
                        font, size, max_width)

(***************************************************************************)
(* AutoFitSizer: auto_fit_font_size, a descending search in steps of one   *)
(* point (SizeUnits half points) from max_size down to min_size.           *)
(***************************************************************************)
RECURSIVE FitLoopReturnsSize(_, _, _, _, _)
FitLoopReturnsSize(text, font, max_width, size, min_size) ==
    IF size >= min_size
    THEN IF string_width(text, font, size) <= max_width
         THEN size
         ELSE FitLoopReturnsSize(text, font, max_width, size - SizeUnits,
                                 min_size)
    ELSE size

RECURSIVE FitLoopFirstOverflow(_, _, _, _, _)
FitLoopFirstOverflow(text, font, max_width, size, min_size) ==
    IF size >= min_size
    THEN IF string_width(text, font, size) >= max_width
         THEN size
         ELSE FitLoopFirstOverflow(text, font, max_width, size - SizeUnits,
                                   min_size)
    ELSE min_size

\* the while loop: size is the size about to be tested
RECURSIVE fit_loop(_, _, _, _, _)
fit_loop(text, font, max_width, size, min_size) ==
    IF size >= min_size
    THEN IF string_width(text, font, size) <= max_width
         THEN size
         ELSE fit_loop(text, font, max_width, size - SizeUnits, min_size)
    ELSE min_size

auto_fit_font_size(text, font, max_width, max_size, min_size) ==
    fit_loop(text, font, max_width, max_size, min_size)

wrap_text_to_width(text, font, size, max_width) ==
    LET words == split(text)
    IN  IF words = <<>> THEN <<>>
        ELSE wrap_loop(words, 2, words[1], <<>>, font, size, max_width)

wrap_text_to_width_table(text, font, size, max_width) ==
    LET words == split(text)
    IN  IF words = <<>> THEN << <<>> >>
        ELSE wrap_loop(words, 2, words[1], <<>>, font, size, max_width)

(***************************************************************************)
(* ColumnWidthAllocator: _autosize_col_widths.  A width list is kept as    *)
(* exact fractions with one denominator, [num, den]: width j is            *)
(* num[j] / den.  Python computes the same in binary floating point, whose *)
(* rounding error (about 1e-13 here) is far below the 0.01 tolerance.      *)
(***************************************************************************)
Max2(a, b) == IF a >= b THEN a ELSE b

Abs(x) == IF x >= 0 THEN x ELSE -x

RECURSIVE SumSeq(_)
SumSeq(q) == IF q = <<>> THEN 0 ELSE Head(q) + SumSeq(Tail(q))

\* defaults of _autosize_col_widths: font_size=9 (half points), min_col=36,
\* the 8pt of padding, and the 0.01 drift tolerance
AutosizeFontSize == 9 * SizeUnits

MinCol == Pt(36)

CellPad == Pt(8)

DriftTol == PtUnits \div 100

\* _measure_text_width(txt, font_name, font_size)
measure_text_width(txt, font, size) == string_width(txt, font, size)

\* widest body cell of column j, starting from w: rows shorter than j are skipped
RECURSIVE body_width(_, _, _)
body_width(rows, j, w) ==
    IF rows = <<>> THEN w
    ELSE body_width(Tail(rows), j,
            IF j <= Len(Head(rows))
            THEN Max2(w, measure_text_width(Head(rows)[j], "Times-Roman",
                                            AutosizeFontSize))
            ELSE w)

\* desired[j] after the header pass, the body pass and the padding/min clamp
desired_widths(headers, rows, min_col) ==
    LET ncols == Max2(1, Len(headers))
        hdr(j) == IF j <= Len(headers)
                  THEN Max2(0, measure_text_width(headers[j], "Times-Bold",
                                                  AutosizeFontSize))
                  ELSE 0
    IN  [j \in 1..ncols |-> Max2(min_col, body_width(rows, j, hdr(j)) + CellPad)]

\* the drift fix: widths[-1] += delta when abs(delta) > 0.01
FixDriftNever(w, max_width) == w

fix_drift(w, max_width) ==
    LET delta == max_width * w.den - SumSeq(w.num)
        n == Len(w.num)
    IN  IF Abs(delta) > DriftTol * w.den
        THEN [w EXCEPT !.num[n] = @ + delta]
        ELSE w

\* widths = [w * scale for w in desired], scale = min(1.0, max_width / total)
scale_widths(desired, total, max_width) ==
    IF max_width >= total
    THEN [num |-> desired, den |-> 1]
    ELSE [num |-> [j \in 1..Len(desired) |-> desired[j] * max_width],
          den |-> total]

autosize_col_widths(headers, rows, max_width, min_col) ==
    LET ncols == Max2(1, Len(headers))
        desired == desired_widths(headers, rows, min_col)
        total == SumSeq(desired)
    IN  IF total <= 0
        THEN [num |-> [j \in 1..ncols |-> max_width], den |-> ncols]
        ELSE fix_drift(scale_widths(desired, total, max_width), max_width)

\* cells, header lists and rows offered to the allocator
WRun(n) == [k \in 1..n |-> "W"]

CellTexts == {WRun(0), WRun(4), WRun(6)}

RECURSIVE CellLists(_)
CellLists(n) ==
    IF n = 0 THEN {<<>>}
    ELSE {Append(q, c) : q \in CellLists(n - 1), c \in CellTexts}

HeaderLists == UNION {CellLists(n) : n \in 0..MaxCols}

RECURSIVE RowLists(_)
RowLists(n) ==
    IF n = 0 THEN {<<>>}
    ELSE {Append(q, r) : q \in RowLists(n - 1), r \in HeaderLists}

RowSets == UNION {RowLists(n) : n \in 0..MaxRows}

\* target widths: around the sum of the desired widths (within and beyond
\* the tolerance), the width of a column of the paper and a narrow one
TargetWidths(headers, rows) ==
    LET total == SumSeq(desired_widths(headers, rows, MinCol))
    IN  {total + d : d \in -3..3} \cup {Pt(243), Pt(60)}

(***************************************************************************)
(* DynamicTemplateFactory: make_fullwidth_then_two_col_template.  A doc is *)
(* the content box of the page: [width, height, leftMargin, bottomMargin]. *)
(* The template id is a fresh uuid, any value of TemplateIds.  All lengths *)
(* offered are even numbers of units, so the halving of col_w is exact.    *)
(***************************************************************************)
Frame(x, y, w, h, id) == [x |-> x, y |-> y, width |-> w, height |-> h, id |-> id]

\* right_x without the gutter
MakeTemplateNoGutter(doc, top_height, gutter, template_id) ==
    LET full_h == Max2(0, top_height)
        below_h == Max2(0, doc.height - full_h)
        col_w == (doc.width - gutter) \div 2
    IN  [id |-> template_id,
         frames |-> << Frame(doc.leftMargin, doc.bottomMargin + below_h,
                             doc.width, full_h, "top"),
                       Frame(doc.leftMargin, doc.bottomMargin, col_w,
                             below_h, "L"),
                       Frame(doc.leftMargin + col_w, doc.bottomMargin, col_w,
                             below_h, "R") >>]

make_fullwidth_then_two_col_template(doc, top_height, gutter, template_id) ==
    LET full_w == doc.width
        full_h == Max2(0, top_height)
        below_h == Max2(0, doc.height - full_h)
        full_y == doc.bottomMargin + below_h
        below_y == doc.bottomMargin
        col_w == (doc.width - gutter) \div 2
        left_x == doc.leftMargin
        right_x == doc.leftMargin + col_w + gutter
    IN  [id |-> template_id,
         frames |-> << Frame(doc.leftMargin, full_y, full_w, full_h, "top"),
                       Frame(left_x, below_y, col_w, below_h, "L"),
                       Frame(right_x, below_y, col_w, below_h, "R") >>]

\* the document of create_research_paper_pdf (letter page, 0.75in and 1in
\* margins) and a smaller content box
PaperDoc ==
    [width |-> Pt(504), height |-> Pt(648),
     leftMargin |-> Pt(54), bottomMargin |-> Pt(72)]

SmallDoc ==
    [width |-> Pt(200), height |-> Pt(500),
     leftMargin |-> Pt(10), bottomMargin |-> Pt(10)]

Docs == {PaperDoc, SmallDoc}

GUTTER == Pt(18)

TemplateIds == {"FW_0", "FW_1"}

\* band heights: negative, zero, inside the page, around and beyond its height
TopHeights(doc) ==
    {-Pt(1), 0, Pt(400)} \cup
    {doc.height + 2 * d : d \in -MaxHeightSteps..MaxHeightSteps} \cup
    {Pt(700)}

\* gutters: none, the paper's, around and beyond the content width
Gutters(doc) ==
    {0, GUTTER} \cup
    {doc.width + 2 * d : d \in -MaxHeightSteps..MaxHeightSteps} \cup
    {doc.width + Pt(96)}

(***************************************************************************)
(* State machine: a run is one call of one of the functions.  Init draws   *)
(* the function (op) and its arguments (args); the call's step computes    *)
(* what it returns (ret) and moves pc from "call" to "done".               *)
(***************************************************************************)
WrapInit ==
    /\ op = "wrap"
    /\ args \in [text : Texts, font : Fonts, size : FontSizes,
                 max_width : WrapWidths,
                 variant : {"coversheet", "create_table"}]

FitInit ==
    /\ op = "fit"
    /\ args \in [text : FitTexts, font : Fonts, max_width : WrapWidths,
                 max_size : FitSizes, min_size : FitSizes]

AutosizeInit ==
    /\ op = "autosize"
    /\ \E headers \in HeaderLists, rows \in RowSets :
         \E mw \in TargetWidths(headers, rows) :
            args = [headers |-> headers, rows |-> rows, max_width |-> mw,
                    min_col |-> MinCol]

TemplateInit ==
    /\ op = "template"
    /\ \E doc \in Docs :
         \E h \in TopHeights(doc), g \in Gutters(doc) :
            args = [doc |-> doc, top_height |-> h, gutter |-> g]

Init ==
    /\ pc = "call"
    /\ ret = <<>>
    /\ \/ WrapInit
       \/ FitInit
       \/ AutosizeInit
       \/ TemplateInit

WrapCall ==
    /\ pc = "call"
    /\ op = "wrap"
    /\ ret' = IF args.variant = "create_table"
              THEN wrap_text_to_width_table(args.text, args.font, args.size,
                                            args.max_width)
              ELSE wrap_text_to_width(args.text, args.font, args.size,
                                      args.max_width)
    /\ pc' = "done"
    /\ UNCHANGED <<op, args>>

FitCall ==
    /\ pc = "call"
    /\ op = "fit"
    /\ ret' = auto_fit_font_size(args.text, args.font, args.max_width,
                                 args.max_size, args.min_size)
    /\ pc' = "done"
    /\ UNCHANGED <<op, args>>

AutosizeCall ==
    /\ pc = "call"
    /\ op = "autosize"
    /\ ret' = autosize_col_widths(args.headers, args.rows, args.max_width,
                                  args.min_col)
    /\ pc' = "done"
    /\ UNCHANGED <<op, args>>

TemplateCall ==
    /\ pc = "call"
    /\ op = "template"
    /\ \E id \in TemplateIds :
         ret' = make_fullwidth_then_two_col_template(args.doc, args.top_height,
                                                     args.gutter, id)
    /\ pc' = "done"
    /\ UNCHANGED <<op, args>>

Next ==
    \/ WrapCall
    \/ FitCall
    \/ AutosizeCall
    \/ TemplateCall

Spec == Init /\ [][Next]_vars

(***************************************************************************)
(* FlowComposer: create_research_paper_pdf builds the story, the ordered   *)
(* list of flowables and directives handed to the backend.  Every element  *)
(* of the story is a record of one shape:                                  *)
(*   kind   Paragraph, Spacer, Table, Image, KeepTogether, CondPageBreak,  *)
(*          NextPageTemplate or PageBreak                                  *)
(*   style  the paragraph style            id  the template switched to    *)
(*   h      the height (spacer, minimum space, measured table or image)    *)
(*   w      the width a table or image was built for                       *)
(*   n      the section, table or paragraph number      text  what it says *)
(*   blocks the flowables of a KeepTogether                                *)
(*   src    which part of the input produced it: 0 the cover, i the i-th   *)
(*          body item, -1 the references (kept for the claims only)        *)
(* A body item is [type, placement, caption, h, nparas]: caption says      *)
(* whether it carries one, h is the measured height of its table or image, *)
(* nparas the number of paragraphs of a section.  The body is read item by *)
(* item: args.body holds the items read so far.                            *)
(***************************************************************************)
Blank ==
    [kind |-> "", style |-> "", id |-> "", h |-> 0, w |-> 0, n |-> 0,
     text |-> "", blocks |-> <<>>, src |-> 0]

Paragraph(text, style, n, src) ==
    [Blank EXCEPT !.kind = "Paragraph", !.text = text, !.style = style,
                  !.n = n, !.src = src]

Spacer(h, src) == [Blank EXCEPT !.kind = "Spacer", !.h = h, !.src = src]

Table(h, w, src) ==
    [Blank EXCEPT !.kind = "Table", !.h = h, !.w = w, !.src = src]

RLImage(h, w, src) ==
    [Blank EXCEPT !.kind = "Image", !.h = h, !.w = w, !.src = src]

NextPageTemplate(id, src) ==
    [Blank EXCEPT !.kind = "NextPageTemplate", !.id = id, !.src = src]

PageBreak(src) == [Blank EXCEPT !.kind = "PageBreak", !.src = src]

CondPageBreak(h, src) ==
    [Blank EXCEPT !.kind = "CondPageBreak", !.h = h, !.src = src]

KeepTogether(blocks, src) ==
    [Blank EXCEPT !.kind = "KeepTogether", !.blocks = blocks, !.src = src]

\* n hundredths of an inch, in units (inch = 72 pt)
Inch100(n) == (n * 72 * PtUnits) \div 100

\* styles['H2'] is the one style with keepWithNext=True
KeepWithNext(style) == style = "H2"

\* Paragraph.wrap of a one-line caption: the leading of styles['TableCaption']
CaptionHeight == Pt(11)

\* fl.wrap(doc.width, 10**6)[1]
wrap_height(fl) ==
    IF fl.kind = "Paragraph" THEN CaptionHeight ELSE fl.h

RECURSIVE SumHeights(_)
SumHeights(flow) ==
    IF flow = <<>> THEN 0
    ELSE wrap_height(Head(flow)) + SumHeights(Tail(flow))

\* make_table_flowables: [caption?, table]; caps is <<>> for caption=None
make_table_flowables(item, caps, max_width, src) ==
    caps \o << Table(item.h, max_width, src) >>

\* make_image_flowables: [caption?, image]
make_image_flowables(item, caps, max_width, src) ==
    caps \o << RLImage(item.h, max_width, src) >>

\* the group is measured without the caption
MeasureGroupNoCaption(cap, flow, spacer_after) ==
    [cap |-> cap, flow |-> flow,
     total_h |-> SumHeights(flow) + spacer_after]

\* measure_fullwidth_table_group and measure_fullwidth_image_group: the
\* caption, the table or image built for doc.width, and their height
measure_fullwidth_group(cap, flow, spacer_after) ==
    [cap |-> cap, flow |-> flow,
     total_h |-> wrap_height(cap) + SumHeights(flow) + spacer_after]

\* uuid4().hex[:8]: a fresh identifier, k templates having been made
FreshTemplateId(k) == "FW_" \o ToString(k)

\* the inputs offered to the builder
ItemHeights == {Pt(100), Pt(700)}

Placements == {"inline", "fullwidth", "float"}

SectionItems ==
    {[type |-> "section", placement |-> "inline", caption |-> FALSE,
      h |-> 0, nparas |-> k] : k \in 0..MaxParas}

FigureItems(type) ==
    {[type |-> type, placement |-> pl, caption |-> c, h |-> h, nparas |-> 0] :
        pl \in Placements, c \in BOOLEAN, h \in ItemHeights}

\* an image whose placement is null: .lower() raises
NullPlacementImage ==
    [type |-> "image", placement |-> "null", caption |-> FALSE,
     h |-> Pt(100), nparas |-> 0]

\* an item of a type the loop does not know
UnknownItem ==
    [type |-> "note", placement |-> "inline", caption |-> FALSE,
     h |-> 0, nparas |-> 0]

Items ==
    SectionItems \cup FigureItems("table") \cup FigureItems("image")
        \cup {NullPlacementImage, UnknownItem}

(***************************************************************************)
(* The steps of create_research_paper_pdf.  ret is the builder's state:    *)
(* the story, section_idx, table_counter and the templates generated.      *)
(***************************************************************************)
PaperInit ==
    /\ op = "paper"
    /\ pc = "cover"
    /\ args = [body |-> <<>>, refs |-> 0]
    /\ ret = [story |-> <<>>, section_idx |-> 1, table_counter |-> 1,
              templates |-> <<>>]

\* title, authors, abstract, keywords, then the switch to the two columns
CoverStory ==
    << Paragraph("title", "PaperTitle", 0, 0),
       Spacer(Inch100(25), 0),
       [Table(0, PaperDoc.width, 0) EXCEPT !.style = "authors"],
       Spacer(Inch100(20), 0),
       Paragraph("abstract", "Abstract", 0, 0),
       Spacer(Inch100(10), 0),
       Paragraph("keywords", "Abstract", 0, 0),
       NextPageTemplate("TwoCol", 0),
       PageBreak(0) >>

PaperCover ==
    /\ op = "paper"
    /\ pc = "cover"
    /\ ret' = [ret EXCEPT !.story = CoverStory]
    /\ pc' = "body"
    /\ UNCHANGED <<op, args>>

\* the guard of every step of the loop over body_content
ReadsItem(item) ==
    /\ op = "paper"
    /\ pc = "body"
    /\ Len(args.body) < MaxItems
    /\ args' = [args EXCEPT !.body = Append(@, item)]
    /\ UNCHANGED op

ColumnWidth == (PaperDoc.width - GUTTER) \div 2

\* the paragraphs of a section: the first two glued, the rest after them
SectionParas(k, src) ==
    LET paras == [j \in 1..k |-> Paragraph("para", "BodyTextPadded", j, src)]
    IN  IF k = 0 THEN <<>>
        ELSE << KeepTogether(SubSeq(paras, 1, IF k > 1 THEN 2 ELSE 1), src) >>
                \o SubSeq(paras, 3, k)

\* the heading is appended without the conditional break
SectionStoryNoBreak(item, section_idx, src) ==
    << Paragraph("heading", "H2", section_idx, src) >>
        \o SectionParas(item.nparas, src)
        \o << Spacer(Inch100(6), src) >>

section_story(item, section_idx, src) ==
    << CondPageBreak(Inch100(80), src),
       Paragraph("heading", "H2", section_idx, src) >>
        \o SectionParas(item.nparas, src)
        \o << Spacer(Inch100(6), src) >>

PaperSection ==
    \E item \in SectionItems :
        /\ ReadsItem(item)
        /\ ret' = [ret EXCEPT
                     !.story = @ \o section_story(item, ret.section_idx,
                                                  Len(args.body) + 1),
                     !.section_idx = @ + 1]
        /\ pc' = "body"

\* the caption paragraph of a table or image; n is the number of an
\* auto-generated "Table n. ..." caption, 0 otherwise
Caption(text, n, src) == Paragraph(text, "TableCaption", n, src)

inline_story(flow, spacer, src) ==
    << KeepTogether(flow, src), Spacer(spacer, src) >>

\* the flow is not switched back to the two columns
FullwidthStoryNoRevert(m, tpl, src) ==
    << NextPageTemplate(tpl.id, src), PageBreak(src), m.cap >>
        \o m.flow
        \o << Spacer(Inch100(6), src) >>

\* the group is left in the running flow
FullwidthStoryNoSwitch(m, tpl, src) ==
    << m.cap >> \o m.flow
        \o << Spacer(Inch100(6), src), NextPageTemplate("TwoCol", src) >>

\* switch to the generated template, break the page, place the measured
\* group and its spacer, switch back to the two columns
fullwidth_story(m, tpl, src) ==
    << NextPageTemplate(tpl.id, src), PageBreak(src), m.cap >>
        \o m.flow
        \o << Spacer(Inch100(6), src), NextPageTemplate("TwoCol", src) >>

new_template(m, templates) ==
    make_fullwidth_then_two_col_template(PaperDoc, m.total_h, GUTTER,
                                         FreshTemplateId(Len(templates)))

PaperImageInline ==
    \E item \in FigureItems("image") :
        /\ item.placement = "inline"
        /\ ReadsItem(item)
        /\ LET src == Len(args.body) + 1
               caps == IF item.caption
                       THEN << Caption("caption", 0, src) >> ELSE <<>>
               flow == make_image_flowables(item, caps, ColumnWidth, src)
           IN  ret' = [ret EXCEPT
                         !.story = @ \o inline_story(flow, Inch100(8), src)]
        /\ pc' = "body"

PaperImageFullwidth ==
    \E item \in FigureItems("image") :
        /\ item.placement = "fullwidth"
        /\ ReadsItem(item)
        /\ LET src == Len(args.body) + 1
               cap == Caption(IF item.caption THEN "caption" ELSE "Figure",
                              0, src)
               flow == make_image_flowables(item, <<>>, PaperDoc.width, src)
               m == measure_fullwidth_group(cap, flow, Inch100(6))
               tpl == new_template(m, ret.templates)
           IN  ret' = [ret EXCEPT
                         !.templates = Append(@, tpl),
                         !.story = @ \o fullwidth_story(m, tpl, src)]
        /\ pc' = "body"

\* item.get('placement', 'inline') is None: .lower() raises AttributeError
\* and the function is left with the exception
PaperImageRaises ==
    /\ ReadsItem(NullPlacementImage)
    /\ pc' = "raised"
    /\ UNCHANGED ret

\* no branch of the loop matches: an image that is neither inline nor
\* fullwidth, or an item of another type; nothing is appended
PaperItemSkipped ==
    \E item \in Items :
        /\ \/ item.type = "image" /\ item.placement = "float"
           \/ item.type \notin {"section", "image", "table"}
        /\ ReadsItem(item)
        /\ pc' = "body"
        /\ UNCHANGED ret

table_caption(item, table_counter, src) ==
    IF item.caption THEN Caption("caption", 0, src)
    ELSE Caption("auto", table_counter, src)

PaperTableInline ==
    \E item \in FigureItems("table") :
        /\ item.placement = "inline"
        /\ ReadsItem(item)
        /\ LET src == Len(args.body) + 1
               cap == table_caption(item, ret.table_counter, src)
               flow == make_table_flowables(item, << cap >>, ColumnWidth, src)
           IN  ret' = [ret EXCEPT
                         !.table_counter = @ + 1,
                         !.story = @ \o << CondPageBreak(Inch100(120), src) >>
                                     \o inline_story(flow, Inch100(8), src)]
        /\ pc' = "body"

PaperTableFullwidth ==
    \E item \in FigureItems("table") :
        /\ item.placement = "fullwidth"
        /\ ReadsItem(item)
        /\ LET src == Len(args.body) + 1
               cap == table_caption(item, ret.table_counter, src)
               flow == make_table_flowables(item, <<>>, PaperDoc.width, src)
               m == measure_fullwidth_group(cap, flow, Inch100(6))
               tpl == new_template(m, ret.templates)
           IN  ret' = [ret EXCEPT
                         !.table_counter = @ + 2,
                         !.templates = Append(@, tpl),
                         !.story = @ \o fullwidth_story(m, tpl, src)]
        /\ pc' = "body"

\* any other placement: the table at doc.width, kept together, no break
PaperTableFallback ==
    \E item \in FigureItems("table") :
        /\ item.placement \notin {"inline", "fullwidth"}
        /\ ReadsItem(item)
        /\ LET src == Len(args.body) + 1
               cap == table_caption(item, ret.table_counter, src)
               flow == make_table_flowables(item, << cap >>, PaperDoc.width,
                                            src)
           IN  ret' = [ret EXCEPT
                         !.table_counter = @ + 1,
                         !.story = @ \o inline_story(flow, Inch100(8), src)]
        /\ pc' = "body"

\* the references follow the body without a template switch
ReferencesStoryNoSwitch(n) ==
    << Paragraph("REFERENCES", "H2", 0, -1), Spacer(Inch100(5), -1) >>
        \o [i \in 1..(2 * n) |->
                IF i % 2 = 1 THEN Paragraph("ref", "ReferenceText", (i + 1) \div 2, -1)
                ELSE Spacer(Pt(4), -1)]

references_story(n) ==
    LET entry(i) == << Paragraph("ref", "ReferenceText", i, -1),
                       Spacer(Pt(4), -1) >>
        entries[i \in 0..n] ==
            IF i = 0 THEN <<>> ELSE entries[i - 1] \o entry(i)
    IN  << NextPageTemplate("First", -1), PageBreak(-1),
           Paragraph("REFERENCES", "H2", 0, -1), Spacer(Inch100(5), -1) >>
            \o entries[n]

\* the loop over body_content is over: the references close the story
PaperReferences ==
    \E n \in 0..MaxRefs :
        /\ op = "paper"
        /\ pc = "body"
        /\ args' = [args EXCEPT !.refs = n]
        /\ ret' = [ret EXCEPT !.story = @ \o references_story(n)]
        /\ pc' = "story"
        /\ UNCHANGED op

PaperNext ==
    \/ PaperCover
    \/ PaperSection
    \/ PaperImageInline
    \/ PaperImageFullwidth
    \/ PaperImageRaises
    \/ PaperItemSkipped
    \/ PaperTableInline
    \/ PaperTableFullwidth
    \/ PaperTableFallback
    \/ PaperReferences

SpecPaper == PaperInit /\ [][PaperNext]_vars

(***************************************************************************)
(* link_citations.  A marker "[inside]" matched by the pattern is rewritten *)
(* by repl.  inside is a sequence of characters; the en dash and the em     *)
(* dash are written "u2013" and "u2014".  The result is the list of tokens  *)
(* that repl joins with ", " between the brackets: a token is the part kept *)
(* as text, or the numbers linked (joined with an en dash).                 *)
(***************************************************************************)
MaxCiteLen == 6

CiteChars == {"1", "3", "5", ",", "-", "u2013", " "}

CiteTexts == UNION {[1..n -> CiteChars] : n \in 1..MaxCiteLen}

Dashes == {"-", "u2013", "u2014"}

AllDigits == << "0", "1", "2", "3", "4", "5", "6", "7", "8", "9" >>

IsDigit(c) == \E d \in 1..10 : AllDigits[d] = c

DigitVal(c) == (CHOOSE d \in 1..10 : AllDigits[d] = c) - 1

\* str.split(sep): the pieces between the occurrences of sep
RECURSIVE split_sep(_, _)
split_sep(s, sep) ==
    IF \A i \in 1..Len(s) : s[i] # sep THEN << s >>
    ELSE LET i == CHOOSE i \in 1..Len(s) :
                      s[i] = sep /\ \A j \in 1..(i - 1) : s[j] # sep
         IN  << SubSeq(s, 1, i - 1) >>
                 \o split_sep(SubSeq(s, i + 1, Len(s)), sep)

\* str.split(sep, 1): cut at the first occurrence of sep, which occurs
split_first(s, sep) ==
    LET i == CHOOSE i \in 1..Len(s) :
                 s[i] = sep /\ \A j \in 1..(i - 1) : s[j] # sep
    IN  << SubSeq(s, 1, i - 1), SubSeq(s, i + 1, Len(s)) >>

\* str.strip()
strip(s) ==
    LET ns == {i \in 1..Len(s) : ~IsSpace(s[i])}
    IN  IF ns = {} THEN <<>>
        ELSE SubSeq(s, CHOOSE i \in ns : \A j \in ns : i <= j,
                       CHOOSE i \in ns : \A j \in ns : j <= i)

IsDigits(s) == s # <<>> /\ \A i \in 1..Len(s) : IsDigit(s[i])

RECURSIVE digits_value(_)
digits_value(s) ==
    IF s = <<>> THEN 0
    ELSE 10 * digits_value(SubSeq(s, 1, Len(s) - 1)) + DigitVal(s[Len(s)])

\* int(x): blanks around are ignored, one sign may lead the digits;
\* ok is FALSE where int raises ValueError
int(x) ==
    LET t == strip(x)
    IN  IF IsDigits(t) THEN [ok |-> TRUE, val |-> digits_value(t)]
        ELSE IF Len(t) >= 2 /\ t[1] = "-" /\ IsDigits(Tail(t))
             THEN [ok |-> TRUE, val |-> 0 - digits_value(Tail(t))]
             ELSE [ok |-> FALSE, val |-> 0]

\* part.replace(en dash, '-').replace(em dash, '-')
norm(part) == [i \in 1..Len(part) |-> IF part[i] \in Dashes THEN "-" ELSE part[i]]

\* a descending range comes out empty
RangeAscendingOnly(a, b) == [i \in 1..(b - a + 1) |-> a + i - 1]

\* list(range(a, b + step, step)) with step = 1 if a <= b else -1
range_list(a, b) ==
    LET step == IF a <= b THEN 1 ELSE 0 - 1
    IN  [i \in 1..(Abs(b - a) + 1) |-> a + (i - 1) * step]

TextToken(part) == [kind |-> "text", text |-> part, nums |-> <<>>]

LinkToken(nums) == [kind |-> "link", text |-> <<>>, nums |-> nums]

\* the body of the loop of repl for one part
repl_part(part) ==
    IF \E i \in 1..Len(part) : part[i] \in Dashes
    THEN LET ab == split_first(norm(part), "-")
             a == int(strip(ab[1]))
             b == int(strip(ab[2]))
         IN  IF a.ok /\ b.ok THEN LinkToken(range_list(a.val, b.val))
             ELSE TextToken(part)
    ELSE LET n == int(part)
         IN  IF n.ok THEN LinkToken(<< n.val >>) ELSE TextToken(part)

\* [p.strip() for p in inside.split(',') if p.strip()]
cite_parts(inside) ==
    LET ps == split_sep(inside, ",")
    IN  SelectSeq([i \in 1..Len(ps) |-> strip(ps[i])], LAMBDA p : p # <<>>)

repl(inside) ==
    LET parts == cite_parts(inside)
    IN  [i \in 1..Len(parts) |-> repl_part(parts[i])]

CiteInit ==
    /\ op = "cite"
    /\ pc = "call"
    /\ \E inside \in CiteTexts : args = [inside |-> inside]
    /\ ret = <<>>

CiteCall ==
    /\ op = "cite"
    /\ pc = "call"
    /\ ret' = repl(args.inside)
    /\ pc' = "done"
    /\ UNCHANGED << op, args >>

CiteNext == CiteCall

SpecCite == CiteInit /\ [][CiteNext]_vars

(***************************************************************************)
(* to_roman, and the counters of create_research_paper_pdf.  A numeral is   *)
(* the sequence of its letters.  The numbering specification follows the    *)
(* loop over body_content by its counters alone: section_idx, table_counter *)
(* and the numbers they put in headings and captions, then the build.       *)
(***************************************************************************)
MaxRomanOver == 3
MaxSections == 4000
MaxTables == 2
MaxImages == 1

numerals ==
    << [val |-> 1000, sym |-> << "M" >>], [val |-> 900, sym |-> << "C", "M" >>],
       [val |-> 500, sym |-> << "D" >>], [val |-> 400, sym |-> << "C", "D" >>],
       [val |-> 100, sym |-> << "C" >>], [val |-> 90, sym |-> << "X", "C" >>],
       [val |-> 50, sym |-> << "L" >>], [val |-> 40, sym |-> << "X", "L" >>],
       [val |-> 10, sym |-> << "X" >>], [val |-> 9, sym |-> << "I", "X" >>],
       [val |-> 5, sym |-> << "V" >>], [val |-> 4, sym |-> << "I", "V" >>],
       [val |-> 1, sym |-> << "I" >>] >>

\* the loop accepts the bounds themselves
RomanRangeInclusive(n) == 0 <= n /\ n <= 4000

\* 0 < n < 4000
roman_in_range(n) == 0 < n /\ n < 4000

\* only the single letters are used: 4 comes out as IIII
RECURSIVE RomanLoopAdditive(_, _)
RomanLoopAdditive(n, k) ==
    IF k > Len(numerals) THEN <<>>
    ELSE IF n >= numerals[k].val /\ Len(numerals[k].sym) = 1
         THEN numerals[k].sym \o RomanLoopAdditive(n - numerals[k].val, k)
         ELSE RomanLoopAdditive(n, k + 1)

\* for val, sym in numerals: while n >= val: out.append(sym); n -= val
RECURSIVE roman_loop(_, _)
roman_loop(n, k) ==
    IF k > Len(numerals) THEN <<>>
    ELSE IF n >= numerals[k].val
         THEN numerals[k].sym \o roman_loop(n - numerals[k].val, k)
         ELSE roman_loop(n, k + 1)

\* raised is TRUE where to_roman raises ValueError
to_roman(n) ==
    IF ~roman_in_range(n) THEN [raised |-> TRUE, numeral |-> <<>>]
    ELSE [raised |-> FALSE, numeral |-> roman_loop(n, 1)]

RomanInputs == (0 - MaxRomanOver)..(3999 + MaxRomanOver)

RomanInit ==
    /\ op = "roman"
    /\ pc = "call"
    /\ \E n \in RomanInputs : args = [n |-> n]
    /\ ret = [raised |-> FALSE, numeral |-> <<>>]

RomanCall ==
    /\ op = "roman"
    /\ pc = "call"
    /\ ret' = to_roman(args.n)
    /\ pc' = "done"
    /\ UNCHANGED << op, args >>

\* output_filename as its path components; "/" leads an absolute path
OutputFilenames == { << "research_paper_enhanced.pdf" >>,
                     << "/", "out", "paper.pdf" >> }

Cwd == << "/", "cwd" >>

\* os.path.abspath
abspath(p) == IF p[1] = "/" THEN p ELSE Cwd \o p

NoResult == [kind |-> "none", path |-> <<>>]

NumberInit ==
    /\ op = "number"
    /\ pc = "loop"
    /\ \E f \in OutputFilenames :
          args = [output_filename |-> f, sections |-> 0, tables |-> 0,
                  images |-> 0]
    /\ ret = [section_idx |-> 1, table_counter |-> 1, heading |-> <<>>,
              caption_n |-> 0, built |-> FALSE, result |-> NoResult]

\* a section item: heading = to_roman(section_idx), section_idx += 1
NumberSection ==
    /\ op = "number"
    /\ pc = "loop"
    /\ args.sections < MaxSections
    /\ ~to_roman(ret.section_idx).raised
    /\ args' = [args EXCEPT !.sections = @ + 1]
    /\ ret' = [ret EXCEPT !.heading = to_roman(ret.section_idx).numeral,
                          !.section_idx = @ + 1]
    /\ UNCHANGED << op, pc >>

\* a section item for which to_roman raises: the ValueError leaves
\* create_research_paper_pdf, doc.build is not reached
NumberSectionRaises ==
    /\ op = "number"
    /\ pc = "loop"
    /\ args.sections < MaxSections
    /\ to_roman(ret.section_idx).raised
    /\ args' = [args EXCEPT !.sections = @ + 1]
    /\ ret' = [ret EXCEPT !.result = [kind |-> "raise", path |-> <<>>]]
    /\ pc' = "raised"
    /\ UNCHANGED op

\* table_counter += 1 after the caption, and once more at the end of the
\* fullwidth branch
table_counter_after(placement, table_counter) ==
    IF placement = "fullwidth" THEN table_counter + 2 ELSE table_counter + 1

\* a table item: caption_n is the N of "Table N. ..." when the item has no
\* caption, 0 when it has one
NumberTable ==
    \E placement \in Placements, caption \in BOOLEAN :
        /\ op = "number"
        /\ pc = "loop"
        /\ args.tables < MaxTables
        /\ args' = [args EXCEPT !.tables = @ + 1]
        /\ ret' = [ret EXCEPT
                      !.caption_n = IF caption THEN 0 ELSE ret.table_counter,
                      !.table_counter =
                          table_counter_after(placement, ret.table_counter)]
        /\ UNCHANGED << op, pc >>

\* an image item: neither counter moves
NumberImage ==
    /\ op = "number"
    /\ pc = "loop"
    /\ args.images < MaxImages
    /\ args' = [args EXCEPT !.images = @ + 1]
    /\ UNCHANGED << op, pc, ret >>

\* the exception of doc.build is caught, printed, and None is returned
build_result(ok, output_filename) ==
    IF ok THEN [kind |-> "path", path |-> abspath(output_filename)]
    ELSE [kind |-> "None", path |-> <<>>]

\* doc.build(story) succeeds or raises
NumberBuild ==
    \E ok \in BOOLEAN :
        /\ op = "number"
        /\ pc = "loop"
        /\ ret' = [ret EXCEPT !.built = ok,
                              !.result = build_result(ok, args.output_filename)]
        /\ pc' = "returned"
        /\ UNCHANGED << op, args >>

NumberNext ==
    \/ RomanCall
    \/ NumberSection
    \/ NumberSectionRaises
    \/ NumberTable
    \/ NumberImage
    \/ NumberBuild

SpecNumber == (RomanInit \/ NumberInit) /\ [][NumberNext]_vars

(***************************************************************************)
(* Font files and image files of the four builders:                        *)
(* create_modern_cover_sheet, create_pdf_layout, create_pdf_with_table and  *)
(* create_research_paper_pdf.  args says which files exist.                 *)
(***************************************************************************)
Builders == {"cover", "widgets", "table", "paper"}

FontRoles == {"bold", "light", "regular"}

\* the built-in font a role falls back to
fallback_font(role) == IF role = "bold" THEN "Helvetica-Bold" ELSE "Helvetica"

\* the font registered from the file of a role
file_font(role) ==
    CASE role = "bold" -> "Poppins-Bold"
      [] role = "light" -> "Poppins-Light"
      [] role = "regular" -> "Poppins-Regular"

\* the fonts dictionary of a builder; "" where it has no such role
register_fonts(builder, font_files) ==
    [role \in FontRoles |->
        IF builder = "paper"
        THEN (IF role = "bold" THEN "Times-Bold" ELSE "Times-Roman")
        ELSE IF builder = "table" /\ role = "light" THEN ""
        ELSE IF role \in font_files THEN file_font(role)
        ELSE fallback_font(role)]

AssetsInit ==
    /\ op = "assets"
    /\ pc = "fonts"
    /\ \E b \in Builders, img \in BOOLEAN, logo \in BOOLEAN,
          ff \in SUBSET FontRoles :
          args = [builder |-> b, image_exists |-> img, logo_exists |-> logo,
                  font_files |-> ff]
    /\ ret = [fonts |-> [role \in FontRoles |-> ""], background |-> "none",
              logo |-> FALSE, saved |-> FALSE]

\* os.path.exists(font file) decides between the file and the fallback
RegisterFonts ==
    /\ op = "assets"
    /\ pc = "fonts"
    /\ ret' = [ret EXCEPT !.fonts = register_fonts(args.builder, args.font_files)]
    /\ pc' = IF args.builder = "table" THEN "save" ELSE "image"
    /\ UNCHANGED << op, args >>

\* draw_cover_image: a solid rectangle when the file does not exist
DrawCoverImage ==
    /\ op = "assets"
    /\ pc = "image"
    /\ args.builder \in {"cover", "widgets"}
    /\ ret' = [ret EXCEPT !.background =
                  IF args.image_exists THEN "image" ELSE "placeholder"]
    /\ pc' = IF args.builder = "cover" THEN "logo" ELSE "save"
    /\ UNCHANGED << op, args >>

\* the logo is drawn when its file exists, left out otherwise
DrawLogo ==
    /\ op = "assets"
    /\ pc = "logo"
    /\ ret' = [ret EXCEPT !.logo = args.logo_exists]
    /\ pc' = "save"
    /\ UNCHANGED << op, args >>

\* make_image_flowables: RLImage(path) and img.imageWidth open the file;
\* the IOError of a missing file leaves create_research_paper_pdf
PaperImageFile ==
    /\ op = "assets"
    /\ pc = "image"
    /\ args.builder = "paper"
    /\ ret' = [ret EXCEPT !.background =
                  IF args.image_exists THEN "image" ELSE "none"]
    /\ pc' = IF args.image_exists THEN "save" ELSE "raised"
    /\ UNCHANGED << op, args >>

\* c.save(), doc.build(story)
SaveOutput ==
    /\ op = "assets"
    /\ pc = "save"
    /\ ret' = [ret EXCEPT !.saved = TRUE]
    /\ pc' = "done"
    /\ UNCHANGED << op, args >>

AssetsNext ==
    \/ RegisterFonts
    \/ DrawCoverImage
    \/ DrawLogo
    \/ PaperImageFile
    \/ SaveOutput

SpecAssets == AssetsInit /\ [][AssetsNext]_vars

(***************************************************************************)
(* draw_rounded_table (create_table.py): the pass that computes the row     *)
(* heights and the pass that draws the rows.  y grows upwards; a line of    *)
(* font size s (half points) is s * 1.2 points high, LineHeight(s) units.   *)
(***************************************************************************)
MaxTableCols == 2
MaxTableRows == 2

\* font_size * line_spacing, line_spacing = 1.2
LineHeight(size) == (size * PtUnits * 12) \div (SizeUnits * 10)

\* font_size in units
SizeHeight(size) == (size * PtUnits) \div SizeUnits

cell_padding == Pt(6)

\* header_font_size + 2 * header_padding
header_height == Pt(11) + 2 * Pt(8)

TableTop == Pt(700)

\* 8 pt and 20 pt
TableSizes == {16, 40}

TableColumnStyles ==
    [font : Fonts, font_size : TableSizes, width : {Pt(32)}]

TableCellTexts == { << "a" >>, << "a", " ", "a", " ", "a" >> }

TableConfigs ==
    UNION {[column_styles : [1..nc -> TableColumnStyles],
            data : [1..nr -> [1..nc -> TableCellTexts]]] :
           nc \in 0..MaxTableCols, nr \in 0..MaxTableRows}

\* the wrapped lines of the cell of column k
cell_lines(row_data, style) ==
    wrap_text_to_width_table(row_data, style.font, style.font_size,
                             style.width - 2 * cell_padding)

RECURSIVE max_lines(_, _, _)
max_lines(row_data, column_styles, k) ==
    IF k = 0 THEN 1
    ELSE Max2(max_lines(row_data, column_styles, k - 1),
              Len(cell_lines(row_data[k], column_styles[k])))

\* row_h = max_lines * (font_size * line_spacing) + 2 * cell_padding, where
\* font_size is the variable left by the loop over the columns: the size of
\* the last column
row_height(row_data, column_styles) ==
    max_lines(row_data, column_styles, Len(column_styles))
        * LineHeight(column_styles[Len(column_styles)].font_size)
        + 2 * cell_padding

TableInit ==
    /\ op = "table"
    /\ pc = "measure"
    /\ \E config \in TableConfigs : args = config
    /\ ret = [row_heights |-> <<>>, total_table_height |-> 0, rows |-> <<>>]

\* 2. Pre-calculate Total Table Height
TableMeasure ==
    /\ op = "table"
    /\ pc = "measure"
    /\ ~(args.column_styles = <<>> /\ args.data # <<>>)
    /\ LET hs == [i \in 1..Len(args.data) |->
                     row_height(args.data[i], args.column_styles)]
       IN  ret' = [ret EXCEPT !.row_heights = hs,
                             !.total_table_height = header_height + SumSeq(hs)]
    /\ pc' = "place"
    /\ UNCHANGED << op, args >>

\* no column style: font_size is unbound at row_h, UnboundLocalError
TableMeasureRaises ==
    /\ op = "table"
    /\ pc = "measure"
    /\ args.column_styles = <<>>
    /\ args.data # <<>>
    /\ pc' = "raised"
    /\ UNCHANGED << op, args, ret >>

\* the top of row i: the header and the rows above it taken off
row_top(row_heights, i) ==
    TableTop - header_height - SumSeq(SubSeq(row_heights, 1, i - 1))

\* one drawn cell: the number of lines and the baseline of the last one
drawn_cell(row_data, style, top) ==
    LET n == Len(cell_lines(row_data, style))
    IN  [lines |-> n,
         font_size |-> style.font_size,
         last_y |-> top - cell_padding - SizeHeight(style.font_size)
                        - (n - 1) * LineHeight(style.font_size)]

\* 3. Draw Rows
TablePlace ==
    /\ op = "table"
    /\ pc = "place"
    /\ ret' = [ret EXCEPT !.rows =
          [i \in 1..Len(args.data) |->
              LET top == row_top(ret.row_heights, i)
              IN  [top |-> top,
                   bottom |-> top - ret.row_heights[i],
                   cells |-> [k \in 1..Len(args.column_styles) |->
                                 drawn_cell(args.data[i][k],
                                            args.column_styles[k], top)]]]]
    /\ pc' = "done"
    /\ UNCHANGED << op, args >>

TableNext ==
    \/ TableMeasure
    \/ TableMeasureRaises
    \/ TablePlace

SpecTable == TableInit /\ [][TableNext]_vars

(***************************************************************************)
(* Citations against the reference list: a body paragraph with one marker   *)
(* is passed through link_citations, and the references section gives entry *)
(* i of references_content the anchor ref_i.                                *)
(***************************************************************************)
MaxRefCiteLen == 3

RefCiteTexts == UNION {[1..n -> CiteChars] : n \in 1..MaxRefCiteLen}

\* the numbers n of the links #ref_n of the tokens, in order
RECURSIVE link_targets(_)
link_targets(tokens) ==
    IF tokens = <<>> THEN <<>>
    ELSE Head(tokens).nums \o link_targets(Tail(tokens))

\* for i, ref in enumerate(references_content, 1): <a name="ref_{i}"/>
reference_anchors(n) == [i \in 1..n |-> i]

RefsInit ==
    /\ op = "refs"
    /\ pc = "call"
    /\ \E inside \in RefCiteTexts, n \in 0..MaxRefs :
          args = [inside |-> inside, refs |-> n]
    /\ ret = [links |-> <<>>, anchors |-> <<>>]

\* the paragraph is linked, then the references are appended
RefsBuild ==
    /\ op = "refs"
    /\ pc = "call"
    /\ ret' = [links |-> link_targets(repl(args.inside)),
               anchors |-> reference_anchors(args.refs)]
    /\ pc' = "done"
    /\ UNCHANGED << op, args >>

RefsNext == RefsBuild

SpecRefs == RefsInit /\ [][RefsNext]_vars

(***************************************************************************)
(* create_pdf_layout (widgets.py): the loop over the widgets, which draws   *)
(* the source buttons of rectangular widgets and collects their sources,    *)
(* and the sources page with one bookmark per distinct source id.  A source *)
(* is [id, label, has_id]; has_id is FALSE when the dictionary has no 'id'. *)
(***************************************************************************)
MaxWidgets == 2

SourceIds == {"s1", "s2"}

Sources ==
    [id : SourceIds, label : {"A", "B"}, has_id : {TRUE}]
        \cup {[id |-> "", label |-> "A", has_id |-> FALSE]}

SourceLists ==
    {<<>>} \cup {<< a >> : a \in Sources}
        \cup {<< a, b >> : a \in Sources, b \in Sources}

\* has_sources is FALSE when content has no 'sources' key
Widgets ==
    [type : {"rectangular", "square"}, has_sources : {TRUE},
     sources : SourceLists]
        \cup [type : {"rectangular", "square"}, has_sources : {FALSE},
              sources : {<<>>}]

WidgetsInit ==
    /\ op = "widgets"
    /\ pc = "widgets"
    /\ args = [widgets |-> <<>>]
    /\ ret = [buttons |-> <<>>, all_sources |-> <<>>, bookmarks |-> <<>>,
              sources_page |-> FALSE, saved |-> FALSE]

\* draw_rectangular_widget: linkRect(label, source.get("id", ""), ...)
source_buttons(sources) == [k \in 1..Len(sources) |-> sources[k].id]

\* a rectangular widget: its buttons are drawn, its sources collected
DrawRectangular ==
    \E w \in Widgets :
        /\ op = "widgets"
        /\ pc = "widgets"
        /\ Len(args.widgets) < MaxWidgets
        /\ w.type = "rectangular"
        /\ args' = [args EXCEPT !.widgets = Append(@, w)]
        /\ ret' = [ret EXCEPT !.buttons = @ \o source_buttons(w.sources),
                              !.all_sources = @ \o w.sources]
        /\ UNCHANGED << op, pc >>

\* a square widget: text only, nothing collected
DrawSquare ==
    \E w \in Widgets :
        /\ op = "widgets"
        /\ pc = "widgets"
        /\ Len(args.widgets) < MaxWidgets
        /\ w.type = "square"
        /\ args' = [args EXCEPT !.widgets = Append(@, w)]
        /\ UNCHANGED << op, pc, ret >>

\* {s['id']: s for s in all_sources}.values(): a key keeps the place of its
\* first insertion and the value of its last
RECURSIVE unique_sources(_)
unique_sources(all) ==
    IF all = <<>> THEN <<>>
    ELSE LET front == unique_sources(SubSeq(all, 1, Len(all) - 1))
             last == all[Len(all)]
         IN  IF \E k \in 1..Len(front) : front[k].id = last.id
             THEN [k \in 1..Len(front) |->
                      IF front[k].id = last.id THEN last ELSE front[k]]
             ELSE Append(front, last)

\* Page 2: one bookmark per distinct id, then c.save()
SourcesPage ==
    /\ op = "widgets"
    /\ pc = "widgets"
    /\ ret.all_sources # <<>>
    /\ \A k \in 1..Len(ret.all_sources) : ret.all_sources[k].has_id
    /\ ret' = [ret EXCEPT !.bookmarks = unique_sources(ret.all_sources),
                          !.sources_page = TRUE,
                          !.saved = TRUE]
    /\ pc' = "done"
    /\ UNCHANGED << op, args >>

\* s['id'] of a source without 'id': KeyError, c.save() is not reached
SourcesPageRaises ==
    /\ op = "widgets"
    /\ pc = "widgets"
    /\ \E k \in 1..Len(ret.all_sources) : ~ret.all_sources[k].has_id
    /\ pc' = "raised"
    /\ UNCHANGED << op, args, ret >>

\* no source collected: no second page
SaveWithoutSources ==
    /\ op = "widgets"
    /\ pc = "widgets"
    /\ ret.all_sources = <<>>
    /\ ret' = [ret EXCEPT !.saved = TRUE]
    /\ pc' = "done"
    /\ UNCHANGED << op, args >>

WidgetsNext ==
    \/ DrawRectangular
    \/ DrawSquare
    \/ SourcesPage
    \/ SourcesPageRaises
    \/ SaveWithoutSources

SpecWidgets == WidgetsInit /\ [][WidgetsNext]_vars

(***************************************************************************)
(* Claims about the wrapper                                                *)
(***************************************************************************)
Done(o) == pc = "done" /\ op = o

\* the lines joined with single spaces
RECURSIVE join(_)
join(lines) ==
    IF lines = <<>> THEN <<>>
    ELSE IF Len(lines) = 1 THEN lines[1]
    ELSE JoinSpace(lines[1], join(Tail(lines)))

HasSpace(line) == \E k \in 1..Len(line) : IsSpace(line[k])

IsWord(line) == line # <<>> /\ ~HasSpace(line)

LineWidth(line) == string_width(line, args.font, args.size)

\* C1: every line returned by wrap_text_to_width is at most max_width wide,
\* or is exactly one whole word of the input that is itself wider than
\* max_width; every overlong word of the input is a line of its own.
C1_WrapLinesFit ==
    Done("wrap") =>
        LET words == split(args.text)
        IN  /\ \A i \in 1..Len(ret) :
                \/ LineWidth(ret[i]) <= args.max_width
                \/ /\ IsWord(ret[i])
                   /\ \E k \in 1..Len(words) : words[k] = ret[i]
            /\ \A k \in 1..Len(words) :
                LineWidth(words[k]) > args.max_width =>
                    \E i \in 1..Len(ret) : ret[i] = words[k]

C1_Witness ==
    /\ Done("wrap")
    /\ \E i \in 1..Len(ret) :
          IsWord(ret[i]) /\ LineWidth(ret[i]) > args.max_width
    /\ \E j \in 1..Len(ret) :
          HasSpace(ret[j]) /\ LineWidth(ret[j]) <= args.max_width

\* C2: joining the returned lines with single spaces gives exactly the
\* whitespace-delimited words of the input, in their order.
C2_WrapRoundTrip ==
    Done("wrap") =>
        /\ join(ret) = join(split(args.text))
        /\ split(join(ret)) = split(args.text)

C2_Witness ==
    /\ Done("wrap")
    /\ Len(ret) >= 2
    /\ Len(split(args.text)) >= 3
    /\ args.text # join(ret)
    /\ \E i \in 1..Len(ret) : HasSpace(ret[i])

(***************************************************************************)
(* Claims about the sizer                                                  *)
(***************************************************************************)
\* the sizes the search may test: max_size, max_size - 1 pt, ... >= min_size
TestedSizes(max_size, min_size) ==
    {max_size - k * SizeUnits : k \in 0..((max_size - min_size) \div SizeUnits)}

FittingSizes(a) ==
    {sz \in TestedSizes(a.max_size, a.min_size) :
        string_width(a.text, a.font, sz) <= a.max_width}

SetMax(S) == CHOOSE x \in S : \A y \in S : y <= x

\* C3: for sizeMax >= sizeMin, auto_fit_font_size returns the first size of
\* sizeMax, sizeMax-1, ... (none below sizeMin) whose single-line width is
\* <= maxWidth, and sizeMin when none of them fits; it always returns a size.
C3_AutoFitFirstFit ==
    (Done("fit") /\ args.max_size >= args.min_size) =>
        IF FittingSizes(args) # {}
        THEN ret = SetMax(FittingSizes(args))
        ELSE ret = args.min_size

C3_Witness ==
    /\ Done("fit")
    /\ args.max_size >= args.min_size + 2 * SizeUnits
    /\ (args.max_size - args.min_size) % SizeUnits # 0
    /\ FittingSizes(args) = {}
    /\ string_width(args.text, args.font, args.min_size) > args.max_width
    /\ ret = args.min_size

\* C4: for fixed text, font, sizeMax and sizeMin, a wider maxWidth never
\* gives a smaller size.
C4_AutoFitMonotone ==
    Done("fit") =>
        \A w2 \in WrapWidths :
            args.max_width <= w2 =>
                ret <= auto_fit_font_size(args.text, args.font, w2,
                                          args.max_size, args.min_size)

C4_Witness ==
    /\ Done("fit")
    /\ args.max_size > args.min_size
    /\ \E w2 \in WrapWidths :
          /\ args.max_width < w2
          /\ ret < auto_fit_font_size(args.text, args.font, w2,
                                      args.max_size, args.min_size)

(***************************************************************************)
(* Claims about the column width allocator                                 *)
(***************************************************************************)
Desired == desired_widths(args.headers, args.rows, args.min_col)

\* C5: for a non-empty header list and targetWidth > 0 the returned widths
\* sum to targetWidth within 0.01.
C5_WidthsSumToTarget ==
    (Done("autosize") /\ args.headers # <<>> /\ args.max_width > 0) =>
        Abs(SumSeq(ret.num) - args.max_width * ret.den) <= DriftTol * ret.den

\* the sum of the desired widths is below, within the tolerance of, or
\* above the target
C5_Witness ==
    /\ Done("autosize")
    /\ Len(args.headers) = 2
    /\ args.rows # <<>>
    /\ SumSeq(Desired) < args.max_width
    /\ args.max_width - SumSeq(Desired) <= DriftTol
    /\ SumSeq(ret.num) # args.max_width * ret.den

\* C6: every returned width is >= min_col unless ncols * min_col exceeds
\* targetWidth.
C6_WidthsAtLeastMinCol ==
    (Done("autosize") /\ args.headers # <<>>
        /\ Len(args.headers) * args.min_col <= args.max_width) =>
        \A j \in 1..Len(ret.num) : ret.num[j] >= args.min_col * ret.den

\* C7: when the desired widths sum to less than targetWidth, every returned
\* width equals its desired width.
C7_NeverScalesUp ==
    (Done("autosize") /\ args.headers # <<>>
        /\ SumSeq(Desired) < args.max_width) =>
        \A j \in 1..Len(ret.num) : ret.num[j] = Desired[j] * ret.den

\* C8: a table with zero columns is rejected: _autosize_col_widths returns
\* no width list for an empty header list.
C8_ZeroColumnsRejected ==
    (Done("autosize") /\ args.headers = <<>>) => Len(ret.num) = 0

(***************************************************************************)
(* Claims about the dynamic template                                       *)
(***************************************************************************)
\* C9: for every band height, gutter and page content size, each of the
\* three frames has width >= 0 and height >= 0.
C9_FramesNonNegative ==
    Done("template") =>
        \A k \in 1..Len(ret.frames) :
            ret.frames[k].width >= 0 /\ ret.frames[k].height >= 0

\* C10: for every band height, the height of the full-width band plus the
\* height of the two-column frames equals the page content height.
C10_BandHeightsSumToPage ==
    Done("template") =>
        ret.frames[1].height + ret.frames[2].height = args.doc.height

\* C11: for 0 <= h <= page content height the template has exactly three
\* frames: a band at the left margin, as wide as the content, h high, its
\* top edge at the top of the content area; and two columns directly below
\* it, each (contentWidth - gutter)/2 wide and (contentHeight - h) high, the
\* left one at the left margin, the right one a gutter after the left one
\* ends and ending at the right edge of the content area.
C11_TemplateGeometry ==
    (Done("template") /\ 0 <= args.top_height
        /\ args.top_height <= args.doc.height) =>
        LET doc == args.doc
            band == ret.frames[1]
            left == ret.frames[2]
            right == ret.frames[3]
        IN  /\ Len(ret.frames) = 3
            /\ band.x = doc.leftMargin
            /\ band.width = doc.width
            /\ band.height = args.top_height
            /\ band.y + band.height = doc.bottomMargin + doc.height
            /\ \A col \in {left, right} :
                  /\ 2 * col.width = doc.width - args.gutter
                  /\ col.height = doc.height - args.top_height
                  /\ col.y = doc.bottomMargin
                  /\ col.y + col.height = band.y
            /\ left.x = doc.leftMargin
            /\ right.x = left.x + left.width + args.gutter
            /\ right.x + right.width = doc.leftMargin + doc.width

\* the scenario of the claim: h = 400 on a content height of 500, gutter 18
C11_Witness ==
    /\ Done("template")
    /\ args.top_height = Pt(400)
    /\ args.doc.height = Pt(500)
    /\ args.gutter = Pt(18)
    /\ ret.frames[1].height = Pt(400)
    /\ ret.frames[2].height = Pt(100)
    /\ ret.frames[3].height = Pt(100)

(***************************************************************************)
(* Claims about the story of create_research_paper_pdf                     *)
(***************************************************************************)
Story == ret.story

Building == op = "paper" /\ pc \in {"body", "story"}

IsSwitch(e) == e.kind = "NextPageTemplate"

SwitchesTo(id) == {i \in 1..Len(Story) : IsSwitch(Story[i]) /\ Story[i].id = id}

\* the first template switch after position i, 0 when there is none
NextSwitch(i) ==
    LET later == {j \in (i + 1)..Len(Story) : IsSwitch(Story[j])}
    IN  IF later = {} THEN 0
        ELSE CHOOSE j \in later : \A k \in later : j <= k

\* C12: every generated full-width template is one-shot: its id is the
\* target of exactly one template switch, a page break follows that switch
\* at once, then come the caption, the table or image and the spacer, and
\* the next template switch selects the standing "TwoCol" template.
C12_GeneratedTemplateOneShot ==
    Building =>
        /\ \A k \in 1..Len(ret.templates) :
              LET sw == SwitchesTo(ret.templates[k].id)
              IN  /\ Cardinality(sw) = 1
                  /\ \A i \in sw :
                        /\ i + 5 <= Len(Story)
                        /\ Story[i + 1].kind = "PageBreak"
                        /\ Story[i + 2].kind = "Paragraph"
                        /\ Story[i + 2].style = "TableCaption"
                        /\ Story[i + 3].kind \in {"Table", "Image"}
                        /\ Story[i + 4].kind = "Spacer"
                        /\ NextSwitch(i) = i + 5
                        /\ Story[i + 5].id = "TwoCol"
        /\ \A i \in 1..Len(Story) :
              (IsSwitch(Story[i]) /\ Story[i].id \notin {"TwoCol", "First"}) =>
                  \E k \in 1..Len(ret.templates) :
                      ret.templates[k].id = Story[i].id

\* two full-width items, one after the other, each with its own template
C12_Witness ==
    /\ op = "paper"
    /\ pc = "story"
    /\ Len(ret.templates) = 2
    /\ ret.templates[1].id # ret.templates[2].id
    /\ args.body[1].type = "table"
    /\ args.body[2].type = "image"

\* the phase a story element belongs to, by the code that appended it
Phase(e) == IF e.src = 0 THEN 0 ELSE IF e.src > 0 THEN 1 ELSE 2

IsSwitchAndBreak(i, id) ==
    /\ i + 1 <= Len(Story)
    /\ IsSwitch(Story[i])
    /\ Story[i].id = id
    /\ Story[i + 1].kind = "PageBreak"

\* C13: the finished story has three phases in order.  The cover blocks
\* (title, authors, abstract, keywords) come first with no template switch
\* among them; exactly one switch to "TwoCol" with a page break follows;
\* then the blocks of the body items, in the order of body_content; then
\* exactly one switch to "First" with a page break; then the references,
\* after which there is no body block and no template switch.
C13_ThreePhases ==
    (op = "paper" /\ pc = "story") =>
        \E a, b \in 1..Len(Story) :
            /\ a + 1 < b
            /\ IsSwitchAndBreak(a, "TwoCol")
            /\ IsSwitchAndBreak(b, "First")
            /\ \A i \in 1..Len(Story) :
                  /\ IsSwitchAndBreak(i, "TwoCol") => i = a
                  /\ (IsSwitch(Story[i]) /\ Story[i].id = "First") => i = b
            /\ Story[1].style = "PaperTitle"
            /\ \E i, j, k \in 2..(a - 1) :
                  /\ i < j /\ j < k
                  /\ Story[i].style = "authors"
                  /\ Story[j].text = "abstract"
                  /\ Story[k].text = "keywords"
            /\ \A i \in 1..(a - 1) :
                  Story[i].src = 0 /\ Story[i].kind \notin {"NextPageTemplate", "PageBreak"}
            /\ \A i \in (a + 2)..(b - 1) : Story[i].src \in 1..Len(args.body)
            /\ \A i, j \in (a + 2)..(b - 1) : i < j => Story[i].src <= Story[j].src
            /\ \A i \in (b + 2)..Len(Story) :
                  Story[i].src = -1 /\ ~IsSwitch(Story[i])
            /\ Len(Story) >= b + 2
            /\ Story[b + 2].text = "REFERENCES"

\* a body with a section and a full-width table, and two references
C13_Witness ==
    /\ op = "paper"
    /\ pc = "story"
    /\ Len(args.body) = 2
    /\ args.body[1].type = "section"
    /\ args.body[2].type = "table"
    /\ args.body[2].placement = "fullwidth"
    /\ args.refs = 2
    /\ \E i \in 1..Len(Story) : Story[i].src = 1
    /\ \E i \in 1..Len(Story) : Story[i].src = 2 /\ Story[i].kind = "Table"
    /\ Story[Len(Story)].src = -1

BlocksOf(k) == {i \in 1..Len(Story) : Story[i].src = k}

\* C14: every section, table or image read from body_content, whatever its
\* placement, has contributed blocks to the story, as one run of blocks,
\* and the blocks of an earlier item precede those of a later one.
C14_EveryItemContributes ==
    Building =>
        \A k \in 1..Len(args.body) :
            args.body[k].type \in {"section", "table", "image"} =>
                /\ BlocksOf(k) # {}
                /\ \A i \in BlocksOf(k) : \A j \in 1..Len(Story) :
                      (i < j /\ Story[j].src > 0) => Story[j].src >= k

IsFigure(item) == item.type \in {"table", "image"}

\* item k is given a page of its own under a generated template
HasOwnRegion(k) ==
    \E i \in BlocksOf(k) :
        /\ IsSwitch(Story[i])
        /\ Story[i].id \notin {"TwoCol", "First"}
        /\ i + 1 \in BlocksOf(k)
        /\ Story[i + 1].kind = "PageBreak"

\* item k is left in the running flow: one keep-together group holding the
\* table or image, no template switch and no page break
StaysInFlow(k) ==
    /\ \A i \in BlocksOf(k) :
          Story[i].kind \in {"CondPageBreak", "KeepTogether", "Spacer"}
    /\ \E i \in BlocksOf(k) :
          /\ Story[i].kind = "KeepTogether"
          /\ \E j \in 1..Len(Story[i].blocks) :
                /\ Story[i].blocks[j].kind \in {"Table", "Image"}
                /\ Story[i].blocks[j].h = args.body[k].h

\* the height an item needs in the flow: caption, table or image, spacer
GroupHeight(item) == CaptionHeight + item.h + Inch100(8)

Band(i) == SubSeq(Story, i + 2, NextSwitch(i) - 1)

\* C16: for every full-width table or image the height of the band of the
\* generated template is the sum of the heights, measured at the full
\* content width, of the blocks placed in it (caption, table or image,
\* spacer); the table or image is built for that width, and the spacer
\* counted is the spacer appended.
C16_BandHeightIsGroupHeight ==
    Building =>
        \A k \in 1..Len(ret.templates) :
            \A i \in SwitchesTo(ret.templates[k].id) :
                LET band == Band(i)
                    top == ret.templates[k].frames[1]
                IN  /\ Len(band) = 3
                    /\ band[1].kind = "Paragraph"
                    /\ band[2].kind \in {"Table", "Image"}
                    /\ band[2].w = PaperDoc.width
                    /\ band[3].kind = "Spacer"
                    /\ top.width = PaperDoc.width
                    /\ top.height = SumHeights(band)
                    /\ top.height - wrap_height(band[1]) - wrap_height(band[2])
                          = band[3].h

\* a tall full-width table and a small full-width image
C16_Witness ==
    /\ op = "paper"
    /\ pc = "story"
    /\ Len(ret.templates) = 2
    /\ args.body[1].type = "table"
    /\ args.body[1].h = Pt(700)
    /\ args.body[2].type = "image"
    /\ args.body[2].h = Pt(100)
    /\ ret.templates[1].frames[1].height = Pt(11) + Pt(700) + Inch100(6)
    /\ ret.templates[2].frames[1].height = Pt(11) + Pt(100) + Inch100(6)

IsCaption(e) == e.kind = "Paragraph" /\ e.style = "TableCaption"

IsSectionHeading(e) == e.kind = "Paragraph" /\ e.style = "H2" /\ e.src >= 1

\* C17: no table or image of the body stands in the story with its caption
\* outside a keep-together group; inside a group the caption comes right
\* before the table or image; every section heading is keep-with-next and,
\* when the section has paragraphs, is immediately followed by a
\* keep-together group of its first one or two paragraphs.
C17_KeptWithCaptionOrHeading ==
    Building =>
        \A i \in 1..Len(Story) :
            /\ (Story[i].src >= 1 /\ Story[i].kind \in {"Table", "Image"}) =>
                  ~(i > 1 /\ IsCaption(Story[i - 1]))
            /\ (Story[i].src >= 1 /\ Story[i].kind = "KeepTogether"
                    /\ \E j \in 1..Len(Story[i].blocks) : IsCaption(Story[i].blocks[j])) =>
                  /\ Len(Story[i].blocks) = 2
                  /\ IsCaption(Story[i].blocks[1])
                  /\ Story[i].blocks[2].kind \in {"Table", "Image"}
            /\ IsSectionHeading(Story[i]) =>
                  /\ KeepWithNext(Story[i].style)
                  /\ args.body[Story[i].src].nparas >= 1 =>
                        /\ i < Len(Story)
                        /\ Story[i + 1].kind = "KeepTogether"
                        /\ Len(Story[i + 1].blocks)
                              = (IF args.body[Story[i].src].nparas > 1 THEN 2 ELSE 1)

\* C18: every section heading in the story is immediately preceded by a
\* conditional break of 0.8 inch, and the keep-together group of every
\* inline table by one of 1.2 inch.
C18_CondBreakBeforeHeadingAndTable ==
    Building =>
        \A i \in 1..Len(Story) :
            /\ IsSectionHeading(Story[i]) =>
                  /\ i > 1
                  /\ Story[i - 1].kind = "CondPageBreak"
                  /\ Story[i - 1].h = Inch100(80)
                  /\ Story[i - 1].h > 0
            /\ (Story[i].kind = "KeepTogether" /\ Story[i].src >= 1
                    /\ args.body[Story[i].src].type = "table"
                    /\ args.body[Story[i].src].placement = "inline") =>
                  /\ i > 1
                  /\ Story[i - 1].kind = "CondPageBreak"
                  /\ Story[i - 1].h = Inch100(120)

\* a section with two paragraphs followed by an inline table
C18_Witness ==
    /\ op = "paper"
    /\ pc = "story"
    /\ Len(args.body) = 2
    /\ args.body[1].type = "section"
    /\ args.body[1].nparas = 2
    /\ args.body[2].type = "table"
    /\ args.body[2].placement = "inline"
    /\ \E i \in 2..Len(Story) :
          IsSectionHeading(Story[i]) /\ Story[i - 1].kind = "CondPageBreak"
    /\ \E i \in 2..Len(Story) :
          /\ Story[i].kind = "KeepTogether"
          /\ Story[i].src = 2
          /\ Story[i - 1].h = Inch100(120)

(***************************************************************************)
(* Claims about link_citations                                             *)
(***************************************************************************)
CitedParts == cite_parts(args.inside)

IsNumberPart(p) == IsDigits(p)

\* the positions at which p reads as "a dash b", a and b written in digits
RangeCuts(p) ==
    {i \in 1..Len(p) :
        /\ p[i] \in Dashes
        /\ IsDigits(strip(SubSeq(p, 1, i - 1)))
        /\ IsDigits(strip(SubSeq(p, i + 1, Len(p))))}

IsRangePart(p) == RangeCuts(p) # {}

WellFormedPart(p) == IsNumberPart(p) \/ IsRangePart(p)

RangeFrom(p) ==
    digits_value(strip(SubSeq(p, 1, (CHOOSE i \in RangeCuts(p) : TRUE) - 1)))

RangeTo(p) ==
    digits_value(strip(SubSeq(p, (CHOOSE i \in RangeCuts(p) : TRUE) + 1, Len(p))))

\* nums runs from a to b inclusive, one by one, up when a <= b, else down
RunsFromTo(nums, a, b) ==
    /\ Len(nums) = Abs(b - a) + 1
    /\ nums[1] = a
    /\ nums[Len(nums)] = b
    /\ \A j \in 1..(Len(nums) - 1) :
          nums[j + 1] = nums[j] + (IF a <= b THEN 1 ELSE 0 - 1)

\* C19: when every part of the marker is an integer n or a range a-b, the
\* result has one token per part, in the order of the parts; the token of n
\* links n alone, the token of a-b links every integer from a to b
\* inclusive, ascending when a <= b and descending when a > b.
C19_LinksInOrder ==
    (Done("cite") /\ \A i \in 1..Len(CitedParts) : WellFormedPart(CitedParts[i])) =>
        /\ Len(ret) = Len(CitedParts)
        /\ \A i \in 1..Len(ret) :
              LET p == CitedParts[i]
              IN  /\ ret[i].kind = "link"
                  /\ IF IsNumberPart(p) THEN ret[i].nums = << digits_value(p) >>
                     ELSE RunsFromTo(ret[i].nums, RangeFrom(p), RangeTo(p))

\* "[1, 3-5]" resolves to 1, then 3, 4, 5
C19_Witness ==
    /\ Done("cite")
    /\ args.inside = << "1", ",", " ", "3", "-", "5" >>
    /\ ret = << LinkToken(<< 1 >>), LinkToken(<< 3, 4, 5 >>) >>

\* C20: a part that is neither an integer nor a range is kept as it is, as
\* text without a link, and the well-formed parts of the marker are linked.
C20_MalformedKeptLiteral ==
    Done("cite") =>
        /\ Len(ret) = Len(CitedParts)
        /\ \A i \in 1..Len(ret) :
              IF WellFormedPart(CitedParts[i]) THEN ret[i].kind = "link"
              ELSE ret[i] = TextToken(CitedParts[i])

(***************************************************************************)
(* Claims about the numbering and the build                                *)
(***************************************************************************)
\* C21: to_roman raises for every n <= 0 and every n >= 4000 and for no
\* other n; the section that takes section_idx out of 1..3999 makes
\* create_research_paper_pdf leave with that error, the build is never
\* started and nothing is returned.
C21_RomanOutOfRangeFatal ==
    /\ Done("roman") => (ret.raised <=> (args.n <= 0 \/ args.n >= 4000))
    /\ op = "number" =>
          /\ args.sections >= 4000 => pc = "raised"
          /\ pc = "raised" =>
                /\ ret.section_idx = 4000
                /\ ret.result.kind = "raise"
                /\ ~ret.built
          /\ ret.built => args.sections <= 3999

\* the 4000th section has been read
C21_Witness ==
    /\ op = "number"
    /\ pc = "raised"
    /\ args.sections = 4000
    /\ args.tables = 1
    /\ ret.result.kind = "raise"
    /\ ~ret.built

RomanLetterValue(c) ==
    CASE c = "I" -> 1 [] c = "V" -> 5 [] c = "X" -> 10 [] c = "L" -> 50
      [] c = "C" -> 100 [] c = "D" -> 500 [] c = "M" -> 1000

\* the number a numeral reads as: a letter before a greater one is taken off
RECURSIVE RomanValue(_)
RomanValue(s) ==
    IF s = <<>> THEN 0
    ELSE IF Len(s) > 1 /\ RomanLetterValue(s[1]) < RomanLetterValue(s[2])
         THEN RomanValue(Tail(s)) - RomanLetterValue(s[1])
         ELSE RomanValue(Tail(s)) + RomanLetterValue(s[1])

\* one decimal digit d written with the letters one, five, ten
RomanDigit(d, one, five, ten) ==
    CASE d = 0 -> <<>>
      [] d = 1 -> << one >>
      [] d = 2 -> << one, one >>
      [] d = 3 -> << one, one, one >>
      [] d = 4 -> << one, five >>
      [] d = 5 -> << five >>
      [] d = 6 -> << five, one >>
      [] d = 7 -> << five, one, one >>
      [] d = 8 -> << five, one, one, one >>
      [] d = 9 -> << one, ten >>

\* the standard subtractive numeral of n in 1..3999, digit by digit
StandardRoman(n) ==
    RomanDigit(n \div 1000, "M", "M", "M")
        \o RomanDigit((n \div 100) % 10, "C", "D", "M")
        \o RomanDigit((n \div 10) % 10, "X", "L", "C")
        \o RomanDigit(n % 10, "I", "V", "X")

\* C22: to_roman(n) is the standard subtractive numeral of n for n in
\* 1..3999 and reads back as n, so distinct n have distinct numerals; the
\* heading of the k-th section carries to_roman(k), whatever tables and
\* images were read before it; the first four headings are I, II, III, IV.
C22_SectionNumbering ==
    /\ (Done("roman") /\ args.n \in 1..3999) =>
          /\ ~ret.raised
          /\ ret.numeral = StandardRoman(args.n)
          /\ RomanValue(ret.numeral) = args.n
    /\ (op = "number" /\ pc # "raised" /\ args.sections >= 1) =>
          /\ ret.section_idx = args.sections + 1
          /\ ret.heading = StandardRoman(args.sections)
          /\ args.sections = 1 => ret.heading = << "I" >>
          /\ args.sections = 2 => ret.heading = << "I", "I" >>
          /\ args.sections = 3 => ret.heading = << "I", "I", "I" >>
          /\ args.sections = 4 => ret.heading = << "I", "V" >>

\* the fourth section, after two tables and an image
C22_Witness ==
    /\ op = "number"
    /\ pc = "loop"
    /\ args.sections = 4
    /\ args.tables = 2
    /\ args.images = 1
    /\ ret.heading = << "I", "V" >>

\* C23: the call returns the absolute path of the artifact exactly when
\* doc.build succeeded, and a failed build reaches the caller as an error,
\* no path being returned.
C23_PathIffBuilt ==
    (op = "number" /\ pc = "returned") =>
        /\ ret.built <=> ret.result.kind = "path"
        /\ ret.built =>
              /\ ret.result.path[1] = "/"
              /\ ret.result.path = abspath(args.output_filename)
        /\ ~ret.built => ret.result.kind = "raise"

\* C28: the N of an auto-generated caption "Table N. ..." is the ordinal of
\* its table among the tables read so far.
C28_AutoCaptionIsOrdinal ==
    (op = "number" /\ ret.caption_n # 0) => ret.caption_n = args.tables

(***************************************************************************)
(* Claims about missing files                                              *)
(***************************************************************************)
\* C24: no builder is stopped by a missing image or font file: every run
\* ends with the output saved, a missing image replaced by the placeholder
\* and the font of a missing file by the built-in font of its role.
C24_MissingFilesNeverFatal ==
    op = "assets" =>
        /\ pc # "raised"
        /\ pc = "done" =>
              /\ ret.saved
              /\ (args.builder # "table" /\ ~args.image_exists) =>
                    ret.background = "placeholder"
              /\ \A role \in FontRoles :
                    (args.builder \in {"cover", "widgets"}
                        /\ role \notin args.font_files) =>
                        ret.fonts[role] = fallback_font(role)

(***************************************************************************)
(* Claims about draw_rounded_table                                         *)
(***************************************************************************)
\* the height a drawn cell needs: lines * size * 1.2 + 2 * padding
CellExtent(cell) == cell.lines * LineHeight(cell.font_size) + 2 * cell_padding

\* C25: the height measured for a row is the height its tallest drawn cell
\* needs, the baseline of the last line of every cell is inside the row,
\* and the table height is the header height plus the row heights.
C25_MeasureEqualsPlace ==
    Done("table") =>
        /\ ret.total_table_height = header_height + SumSeq(ret.row_heights)
        /\ \A i \in 1..Len(ret.rows) :
              LET row == ret.rows[i]
              IN  /\ row.top - row.bottom = ret.row_heights[i]
                  /\ \A k \in 1..Len(row.cells) :
                        /\ CellExtent(row.cells[k]) <= ret.row_heights[i]
                        /\ row.cells[k].last_y >= row.bottom
                  /\ row.cells # <<>> =>
                        \E k \in 1..Len(row.cells) :
                            CellExtent(row.cells[k]) = ret.row_heights[i]

(***************************************************************************)
(* Further claims about the wrapper and the allocator                      *)
(***************************************************************************)
\* C26: the wrap is greedy: for every two consecutive lines L and M, L
\* followed by a space and the first word of M is wider than max_width, so
\* a line is closed only when the next word does not fit.
C26_WrapGreedyMaximal ==
    Done("wrap") =>
        \A i \in 1..(Len(ret) - 1) :
            /\ split(ret[i + 1]) # <<>>
            /\ LineWidth(JoinSpace(ret[i], split(ret[i + 1])[1])) > args.max_width

\* three words at a width that holds two of them: two words, then one
C26_Witness ==
    /\ Done("wrap")
    /\ Len(split(args.text)) = 3
    /\ Len(ret) = 2
    /\ Len(split(ret[1])) = 2
    /\ LineWidth(ret[1]) <= args.max_width
    /\ LineWidth(join(split(args.text))) > args.max_width

\* the widest cell of column j, header or body, as measured
ContentWidth(j) ==
    body_width(args.rows, j,
               measure_text_width(args.headers[j], "Times-Bold", AutosizeFontSize))

\* C27: the returned widths keep the order of the content widths: a column
\* whose widest cell is at least as wide as that of another column is at
\* least as wide as it, the last column included.
C27_WidthOrderPreserved ==
    (Done("autosize") /\ args.headers # <<>>) =>
        \A i, j \in 1..Len(args.headers) :
            ContentWidth(i) >= ContentWidth(j) =>
                ret.num[i] >= ret.num[j]

(***************************************************************************)
(* Claims about citations and references                                   *)
(***************************************************************************)
\* C29: every link #ref_n of the paragraph has exactly one anchor ref_n in
\* the references, and the anchors are ref_1 .. ref_N in the order of the
\* list.
C29_LinksHaveAnchors ==
    Done("refs") =>
        /\ ret.anchors = [i \in 1..args.refs |-> i]
        /\ \A k \in 1..Len(ret.links) :
              Cardinality({i \in 1..Len(ret.anchors) :
                              ret.anchors[i] = ret.links[k]}) = 1

(***************************************************************************)
(* Claims about the widgets layout                                         *)
(***************************************************************************)
\* the sources of the rectangular widgets read, in order
RECURSIVE RectangularSources(_)
RectangularSources(ws) ==
    IF ws = <<>> THEN <<>>
    ELSE (IF Head(ws).type = "rectangular" THEN Head(ws).sources ELSE <<>>)
            \o RectangularSources(Tail(ws))

FirstAt(q, id) == CHOOSE k \in 1..Len(q) :
                      q[k].id = id /\ \A j \in 1..(k - 1) : q[j].id # id

LastAt(q, id) == CHOOSE k \in 1..Len(q) :
                     q[k].id = id /\ \A j \in (k + 1)..Len(q) : q[j].id # id

\* C30: for every list of widgets, when create_pdf_layout has ended, the
\* document is saved and every source button links to an id that is
\* bookmarked exactly once; the bookmarks are the distinct ids of the
\* sources of the rectangular widgets, in the order of their first
\* occurrence, each with the entry of its last occurrence; sources of
\* square widgets are not collected; the sources page exists exactly when
\* a source was collected.
C30_ButtonsHaveBookmarks ==
    (op = "widgets" /\ pc # "widgets") =>
        LET collected == RectangularSources(args.widgets)
            marks == ret.bookmarks
        IN  /\ ret.saved
            /\ ret.all_sources = collected
            /\ ret.sources_page <=> collected # <<>>
            /\ \A b \in 1..Len(ret.buttons) :
                  Cardinality({k \in 1..Len(marks) :
                                  marks[k].id = ret.buttons[b]}) = 1
            /\ \A c \in 1..Len(collected) :
                  Cardinality({k \in 1..Len(marks) :
                                  marks[k].id = collected[c].id}) = 1
            /\ \A k \in 1..Len(marks) :
                  /\ \E c \in 1..Len(collected) : collected[c].id = marks[k].id
                  /\ marks[k] = collected[LastAt(collected, marks[k].id)]
            /\ \A k, l \in 1..Len(marks) :
                  k < l => FirstAt(collected, marks[k].id)
                               < FirstAt(collected, marks[l].id)

=============================================================================
